---- MODULE Spec2Model ----
(***************************************************************************)
(* Context Acquisition Subsystem of OpenAgentsControl: the registry        *)
(* filters (utils/registry-fetcher.ts), the sparse content transport       *)
(* (utils/git-sparse.ts) and the install orchestrator in its TypeScript    *)
(* (install-context.ts), Node (install-context.js) and shell               *)
(* (install-context.sh) variants.                                          *)
(*                                                                         *)
(* A path string is represented by the list String.split('/') yields for   *)
(* it, so "a/b.md" is <<"a","b.md">> and the empty string is <<"">>.       *)
(***************************************************************************)
EXTENDS Integers, Sequences, FiniteSets, TLC

\* ------------------------------------------------------------------ bounds
MaxComps == 2
MaxRuns == 2
MaxEdits == 1
MaxFiles == 2
MaxSignals == 1

\* --------------------------------------------------------------- constants
CONTEXT_SOURCE_PATH == <<".opencode", "context">>

EmptyString == <<"">>

Range(s) == {s[i] : i \in 1..Len(s)}

IsPrefix(p, s) == Len(p) <= Len(s) /\ SubSeq(s, 1, Len(p)) = p

\* ------------------------------------------------ pure registry functions
\* registry.components.contexts || []
Contexts(registry) == IF registry.defined THEN registry.contexts ELSE <<>>

Profiles == {"essential", "standard", "extended", "specialized", "all"}

profileCategoriesDropCore ==
  [essential   |-> <<"essential", "core">>,
   standard    |-> <<"essential", "standard">>,
   extended    |-> <<"essential", "core", "standard", "extended">>,
   specialized |-> <<"essential", "core", "standard", "extended", "specialized">>,
   all         |-> <<>>]

profileCategories ==
  [essential   |-> <<"essential", "core">>,
   standard    |-> <<"essential", "core", "standard">>,
   extended    |-> <<"essential", "core", "standard", "extended">>,
   specialized |-> <<"essential", "core", "standard", "extended", "specialized">>,
   all         |-> <<>>]

\* The result of a call: threw = TRUE models `throw new Error(...)`.
Returned(v) == [threw |-> FALSE, value |-> v]
Thrown == [threw |-> TRUE, value |-> <<>>]

filterContextByProfileNoAll(registry, profile) ==
  LET contexts == Contexts(registry) IN
  IF profile \notin DOMAIN profileCategories THEN Thrown
  ELSE LET categories == profileCategories[profile] IN
       Returned(SelectSeq(contexts, LAMBDA component :
                            component.category \in Range(categories)))

filterContextByProfile(registry, profile) ==
  LET contexts == Contexts(registry) IN
  IF profile = "all" THEN Returned(contexts)
  ELSE IF profile \notin DOMAIN profileCategories THEN Thrown
  ELSE LET categories == profileCategories[profile] IN
       Returned(SelectSeq(contexts, LAMBDA component :
                            component.category \in Range(categories)))

filterContextByIdsFirstOnly(registry, componentIds) ==
  LET contexts == Contexts(registry) IN
  SelectSeq(contexts, LAMBDA component :
              componentIds # <<>> /\ component.id = componentIds[1])

filterContextByIds(registry, componentIds) ==
  LET contexts == Contexts(registry) IN
  SelectSeq(contexts, LAMBDA component : component.id \in Range(componentIds))

\* pathParts.pop(): drops the last element
Pop(pathParts) == SubSeq(pathParts, 1, Len(pathParts) - 1)

\* pathParts.join('/') in split form: joining no parts yields the empty string
Join(pathParts) == IF pathParts = <<>> THEN EmptyString ELSE pathParts

\* JavaScript truthiness of a string: only the empty string is falsy
Truthy(str) == str # EmptyString

DirPath(path) == Join(Pop(path))

RECURSIVE AddUnique(_, _, _)
AddUnique(components, i, paths) ==
  IF i > Len(components) THEN paths
  ELSE LET dirPath == DirPath(components[i].path) IN
       AddUnique(components, i + 1,
                 IF Truthy(dirPath) /\ dirPath \notin Range(paths)
                 THEN Append(paths, dirPath) ELSE paths)

RECURSIVE AddAll(_, _, _)
AddAll(components, i, paths) ==
  IF i > Len(components) THEN paths
  ELSE LET dirPath == DirPath(components[i].path) IN
       AddAll(components, i + 1,
              IF Truthy(dirPath) THEN Append(paths, dirPath) ELSE paths)

getUniquePathsNoDedup(components) == AddAll(components, 1, <<>>)

\* Array.from(new Set(...)): distinct directories in first-insertion order
getUniquePaths(components) == AddUnique(components, 1, <<>>)


\* ------------------------------------------------------ remote repository
F_a == <<".opencode", "context", "core", "a.md">>
F_b == <<".opencode", "context", "core", "b.md">>
F_c == <<".opencode", "context", "development", "c.md">>
F_nav == <<".opencode", "context", "navigation.md">>
F_h == <<".opencode", "context", ".hidden", "h.md">>
F_d == <<"docs", "d.md">>
F_readme == <<"README.md">>

\* What HEAD of the remote branch may hold when the clone runs
RepoFull == [commit |-> "c1", files |-> {F_a, F_b, F_c, F_nav, F_h, F_d, F_readme}]
RepoDrift == [commit |-> "c2", files |-> {F_a, F_c, F_nav, F_h, F_d, F_readme}]
RepoNoContext == [commit |-> "c3", files |-> {F_d, F_readme}]
Repos == {RepoFull, RepoDrift, RepoNoContext}

\* What registry.json may hold when it is fetched
Comp(id, category, path) == [id |-> id, category |-> category, path |-> path]
RegA == [defined |-> TRUE,
         contexts |-> <<Comp("a", "core", F_a), Comp("b", "essential", F_b),
                        Comp("c", "extended", F_c), Comp("d", "specialized", F_d),
                        Comp("h", "specialized", F_h)>>]
RegNoContexts == [defined |-> FALSE, contexts |-> <<>>]
InstallRegistries == {RegA, RegNoContexts}
NoRegistry == RegNoContexts

RepoOfCommit(commit) == CHOOSE repo \in Repos : repo.commit = commit

\* git sparse-checkout (cone mode): files at the repository root, files
\* directly inside every ancestor of a requested directory, and everything
\* below a requested directory
CheckedOut(repo, paths) ==
  {f \in repo.files :
     \/ Len(f) = 1
     \/ \E d \in Range(paths) : IsPrefix(d, Pop(f)) \/ IsPrefix(Pop(f), d)}

\* ---------------------------------------------------------- file system
Roots == {"plugin", "project", "global"}

\* Paths relative to CONTEXT_DIR that a copy can create
LocalPaths == {SubSeq(f, 3, Len(f)) : f \in {g \in RepoFull.files : IsPrefix(CONTEXT_SOURCE_PATH, g)}}

NoManifest == [kind |-> "none"]
CorruptManifest == [kind |-> "corrupt"]
NoPointer == [exists |-> FALSE, root |-> ""]
NoScratch == [exists |-> FALSE, files |-> {}]
EmptyCtx == [exists |-> FALSE, files |-> [l \in LocalPaths |-> "absent"]]
EmptyRoot == [manifest |-> NoManifest, ctx |-> EmptyCtx, pointer |-> NoPointer]

\* Scratch directories: 0 is the fixed PLUGIN_ROOT/.tmp-context-download of
\* the TypeScript variant, n > 0 the mkdtemp directory of invocation n
ScratchNames == 0..MaxRuns

\* fs.existsSync on a path below CONTEXT_DIR (true for files and directories)
ExistsSync(ctx, rel) ==
  IF rel = <<>> THEN ctx.exists
  ELSE \E l \in LocalPaths : ctx.files[l] # "absent" /\ IsPrefix(rel, l)

\* c.path.replace(`${CONTEXT_SOURCE_PATH}/`, ''): removes the first occurrence
ReplaceSourcePrefix(path) ==
  LET hits == {i \in 1..Len(path) :
                 /\ i + 2 <= Len(path)
                 /\ path[i] = CONTEXT_SOURCE_PATH[1]
                 /\ path[i + 1] = CONTEXT_SOURCE_PATH[2]} IN
  IF hits = {} THEN path
  ELSE LET i == CHOOSE k \in hits : \A j \in hits : k <= j IN
       SubSeq(path, 1, i - 1) \o SubSeq(path, i + 2, Len(path))

\* join(CONTEXT_DIR, rel), as a path relative to CONTEXT_DIR: path.join
\* drops empty segments
LocalPathKeepPrefix(path) ==
  SelectSeq(path, LAMBDA seg : seg # "")

LocalPath(path) ==
  SelectSeq(ReplaceSourcePrefix(path), LAMBDA seg : seg # "")

ManifestComponent(c) ==
  [id |-> c.id, path |-> c.path, local_path |-> LocalPath(c.path),
   category |-> c.category]

ManifestComponents(components) ==
  [i \in 1..Len(components) |-> ManifestComponent(components[i])]

\* The Manifest object of install-context.ts
TSManifest(profile, custom, commit, at, components) ==
  [kind |-> "json", author |-> "ts",
   profile |-> IF Len(custom) > 0 THEN "custom" ELSE profile,
   commit |-> commit, downloaded_at |-> at,
   context |-> ManifestComponents(components)]

\* The shell glob * does not match an entry whose name starts with a dot
DotEntries == {".hidden"}
GlobStar(l) == l[1] \notin DotEntries

\* cp -r "${sourceDir}"/* "${targetDir}"/ : every file below an entry the
\* glob matches overwrites the file of the same relative path, others are kept
Copied(files) ==
  {l \in LocalPaths : CONTEXT_SOURCE_PATH \o l \in files /\ GlobStar(l)}

CopyOverlayKeepExisting(ctx, files) ==
  [exists |-> TRUE,
   files |-> [l \in LocalPaths |->
                IF l \in Copied(files) /\ ctx.files[l] = "absent"
                THEN "upstream" ELSE ctx.files[l]]]

\* A copy that mirrors the source: files not in the source are removed
CopyMirror(ctx, files) ==
  [exists |-> TRUE,
   files |-> [l \in LocalPaths |->
                IF l \in Copied(files) THEN "upstream" ELSE "absent"]]

\* cp -r source/* target/: files of the source are created or overwritten,
\* every other file of the target stays
CopyOverlay(ctx, files) ==
  [exists |-> TRUE,
   files |-> [l \in LocalPaths |->
                IF l \in Copied(files) THEN "upstream" ELSE ctx.files[l]]]

\* existsSync(sourceDir): git creates a directory only for a file below it
SourceSubtreePresent(files) == \E f \in files : IsPrefix(CONTEXT_SOURCE_PATH, f)

\* The glob of cp matches at least one entry (else cp fails on a literal *)
GlobMatches(files) == Copied(files) # {}


\* ------------------------------------------- context discovery protocol
\* Step 2: the candidate roots of the discovery chain, in the order checked,
\* and the source reported for each (the Return Format names no source for
\* the global install, "discovery:global" stands for it)
ChainCandidates ==
  <<".claude/context", "context", ".opencode/context", "~/.claude/context",
    "{PLUGIN_ROOT}/context">>

ChainSources ==
  <<"discovery:claude", "discovery:context", "discovery:opencode",
    "discovery:global", "discovery:plugin">>

\* The directory has a navigation.md
HasNavigation(env, root) == root \in env.nav

FastPathTrustsPointer(env) == env.pointer.exists

\* Step 1: .oac.json exists and the directory of its context.root has a
\* navigation.md
FastPathResolves(env) ==
  env.pointer.exists /\ HasNavigation(env, env.pointer.root)

LastMatch(env) ==
  LET hits == {k \in 1..Len(ChainCandidates) : HasNavigation(env, ChainCandidates[k])} IN
  IF hits = {} THEN 0 ELSE CHOOSE k \in hits : \A j \in hits : j <= k

\* Step 2: the first candidate that has a navigation.md, 0 when none has
FirstMatch(env) ==
  LET hits == {k \in 1..Len(ChainCandidates) : HasNavigation(env, ChainCandidates[k])} IN
  IF hits = {} THEN 0 ELSE CHOOSE k \in hits : \A j \in hits : k <= j

ProjectLocalOrGlobal(k) == k \in 1..4

\* Step 3: the table of resolved roots for which .oac.json is to be written
ProjectLocal(k) == k \in 1..3

DiscoveryResult(context_root, source, write_oac_json, warning) ==
  [context_root |-> context_root, source |-> source,
   write_oac_json |-> write_oac_json, warning |-> warning]

NoDiscovery == DiscoveryResult("", "", FALSE, FALSE)

\* Steps 2 to 4. Step 3 signals the creation of .oac.json after a chain match
\* with a project-local root; the Summary signals it only on the branch
\* without .oac.json, so after a stale .oac.json either value can be returned.
DiscoveryChain(env, warning) ==
  LET k == FirstMatch(env) IN
  IF k = 0 THEN {DiscoveryResult("", "none", FALSE, warning)}
  ELSE {DiscoveryResult(ChainCandidates[k], ChainSources[k], w, warning) :
          w \in IF ~ProjectLocal(k) THEN {FALSE}
                ELSE IF env.pointer.exists THEN BOOLEAN ELSE {TRUE}}

DiscoverChainFirst(env) ==
  IF FirstMatch(env) # 0 THEN DiscoveryChain(env, FALSE)
  ELSE IF FastPathResolves(env)
  THEN {DiscoveryResult(env.pointer.root, "oac.json", FALSE, FALSE)}
  ELSE DiscoveryChain(env, env.pointer.exists)

\* The protocol, Steps 1 to 4: the results it allows for the files found
DiscoverContextRoot(env) ==
  IF FastPathResolves(env)
  THEN {DiscoveryResult(env.pointer.root, "oac.json", FALSE, FALSE)}
  ELSE DiscoveryChain(env, env.pointer.exists)

\* -------------------------------------------------------- fetchRegistry
\* A JSON value of the registry document, by type
Str(v) == [t |-> "string", v |-> v]
Undefined == [t |-> "undefined", v |-> ""]

\* ComponentSchema: id, path and category are required strings (name and
\* type are validated like id)
ComponentSchemaOk(c) ==
  c.id.t = "string" /\ c.path.t = "string" /\ c.category.t = "string"

\* RegistrySchema: version (like schema_version and repository) is a
\* required string, categories a required record of strings,
\* components.contexts an optional array of ComponentSchema
RegistrySchemaOk(data) ==
  /\ data.version.t = "string"
  /\ data.categories.t = "record"
  /\ \/ data.contexts.t = "undefined"
     \/ /\ data.contexts.t = "array"
        /\ \A k \in 1..Len(data.contexts.items) : ComponentSchemaOk(data.contexts.items[k])

\* RegistrySchema.parse(registryData): the typed registry
ParsedRegistry(data) ==
  [defined |-> data.contexts.t = "array",
   contexts |-> [k \in 1..Len(data.contexts.items) |->
                   Comp(data.contexts.items[k].id.v, data.contexts.items[k].category.v,
                        data.contexts.items[k].path.v)]]

FetchOutcome(returned, error, registry, categories) ==
  [returned |-> returned, error |-> error, registry |-> registry,
   categories |-> categories]

NoFetch == FetchOutcome(FALSE, "", [defined |-> FALSE, contexts |-> <<>>], {})

\* fetchRegistry: throws when the response is not ok or the document fails
\* RegistrySchema, returns the parsed registry otherwise
fetchRegistry(response) ==
  IF ~response.ok
  THEN FetchOutcome(FALSE, "fetch", [defined |-> FALSE, contexts |-> <<>>], {})
  ELSE IF ~RegistrySchemaOk(response.body)
  THEN FetchOutcome(FALSE, "schema", [defined |-> FALSE, contexts |-> <<>>], {})
  ELSE FetchOutcome(TRUE, "", ParsedRegistry(response.body),
                    response.body.categories.keys)

NoDocument ==
  [version |-> Undefined, categories |-> [t |-> "undefined", keys |-> {}],
   contexts |-> [t |-> "undefined", items |-> <<>>]]

DiscIdle == [env |-> [pointer |-> [exists |-> FALSE, root |-> ""], nav |-> {}],
             res |-> NoDiscovery, changed |-> FALSE]

FetchIdle == [response |-> [ok |-> FALSE, body |-> NoDocument], res |-> NoFetch]

\* --------------------------------------------------------------- updater
\* The files update_all_components finds below the install directory, in
\* the order of its loops
UpdFiles == 1..MaxFiles

\* The updater before it is started
UpdIdle ==
  [pc |-> "idle", cur |-> 0, suspicious |-> {},
   files |-> [f \in UpdFiles |-> "original"],
   backup |-> [f \in UpdFiles |-> "none"],
   BACKUP_FILES |-> {},
   status |-> [f \in UpdFiles |-> ""],
   pending |-> "", signals |-> 0]


\* ------------------------------------------------------------------ state
VARIABLES
  fs,       \* per scope root: manifest file, content directory, pointer file
  scratch,  \* scratch directories
  inst,     \* per installer process: its options, position and result
  runs,     \* number of installer invocations started
  edits,    \* number of manual edits made to installed files
  fnReg,    \* registry handed to the pure registry functions
  fnRes,    \* the last call of a pure registry function and its result
  disc,     \* context discovery: the files it probes and its last result
  fetched,  \* fetchRegistry: the document served and the call's outcome
  upd       \* the updater: files, backups, tracked backups, position, signal

vars == <<fs, scratch, inst, runs, edits, fnReg, fnRes, disc, fetched, upd>>

Procs == {"p1", "p2"}

NoResult == [returned |-> FALSE, success |-> FALSE, exit |-> 0, via |-> "",
             manifest |-> NoManifest, errors |-> <<>>]

Idle == [pc |-> "idle", variant |-> "", root |-> "", profile |-> "",
         custom |-> <<>>, dryRun |-> FALSE, force |-> FALSE, git |-> FALSE,
         run |-> 0, registry |-> NoRegistry, components |-> <<>>,
         commit |-> "", calls |-> {}, writes |-> {}, missing |-> 0,
         result |-> NoResult,
         pre |-> [fs |-> [r \in Roots |-> EmptyRoot],
                  scratch |-> [n \in ScratchNames |-> NoScratch]]]

NoCall == [fn |-> "", profile |-> "", ids |-> <<>>, threw |-> FALSE, value |-> <<>>]

InstallInit ==
  /\ fs = [r \in Roots |-> EmptyRoot]
  /\ scratch = [n \in ScratchNames |-> NoScratch]
  /\ inst = [p \in Procs |-> Idle]
  /\ runs = 0
  /\ edits = 0

Init ==
  /\ InstallInit
  /\ fnReg = NoRegistry
  /\ fnRes = NoCall
  /\ disc = DiscIdle
  /\ fetched = FetchIdle
  /\ upd = UpdIdle

\* ------------------------------------------------- installer: invocation
TSProfileInputs == {"essential", "all", "bogus"}
TSCustomInputs == {<<"a", "zz">>}

\* The scope roots share no file, so a behaviour follows the installs of one
\* installer at one scope root (the TypeScript variant installs at the plugin
\* root, the Node and shell variants at the project or the global root)
Begin(p, variant, root, profile, custom, dryRun, force, git, pc) ==
  /\ inst[p].pc = "idle"
  /\ runs < MaxRuns
  /\ \A q \in Procs : inst[q].root \in {"", root} /\ inst[q].variant \in {"", variant}
  /\ runs' = runs + 1
  /\ inst' = [inst EXCEPT ![p] =
       [Idle EXCEPT !.pc = pc, !.variant = variant, !.root = root,
                    !.profile = profile, !.custom = custom,
                    !.dryRun = dryRun, !.force = force, !.git = git,
                    !.run = runs + 1,
                    !.pre = [fs |-> fs, scratch |-> scratch]]]
  /\ UNCHANGED <<fs, scratch, edits, fnReg, fnRes, disc, fetched, upd>>

\* main() of install-context.ts parses the arguments and calls installContext
TSStart(p) ==
  \E dryRun, force, git \in BOOLEAN :
    \/ \E profile \in TSProfileInputs :
         Begin(p, "ts", "plugin", profile, <<>>, dryRun, force, git, "ts:gitcheck")
    \/ \E custom \in TSCustomInputs :
         Begin(p, "ts", "plugin", "essential", custom, dryRun, force, git, "ts:gitcheck")

\* The manifest of the catch block's InstallResult
FailedManifest ==
  [kind |-> "json", author |-> "ts", profile |-> "essential", commit |-> "",
   downloaded_at |-> 0, context |-> <<>>]

\* `return { success: true, manifest }` and main()'s exit code
ReturnedSuccess(i, via, manifest) ==
  [i EXCEPT !.pc = "done",
            !.result = [returned |-> TRUE, success |-> TRUE, exit |-> 0,
                        via |-> via, manifest |-> manifest, errors |-> <<>>]]

CaughtExitsZero(i, stage) ==
  [i EXCEPT !.pc = "done",
            !.result = [returned |-> TRUE, success |-> FALSE, exit |-> 0,
                        via |-> stage, manifest |-> FailedManifest,
                        errors |-> <<stage>>]]

\* A throw inside the try block of installContext: the catch block returns
\* success = false with the error message and main() exits with 1
Caught(i, stage) ==
  [i EXCEPT !.pc = "done",
            !.result = [returned |-> TRUE, success |-> FALSE, exit |-> 1,
                        via |-> stage, manifest |-> FailedManifest,
                        errors |-> <<stage>>]]

\* ----------------------------------------- installContext (TypeScript)
TSCheckGitSkipped(p) ==
  /\ inst[p].pc = "ts:gitcheck"
  /\ inst' = [inst EXCEPT ![p] = [@ EXCEPT !.pc = "ts:gate"]]
  /\ UNCHANGED <<fs, scratch, runs, edits, fnReg, fnRes, disc, fetched, upd>>

TSCheckGit(p) ==
  /\ inst[p].pc = "ts:gitcheck"
  /\ inst' = [inst EXCEPT ![p] =
       IF ~inst[p].git THEN Caught(@, "error:git") ELSE [@ EXCEPT !.pc = "ts:gate"]]
  /\ UNCHANGED <<fs, scratch, runs, edits, fnReg, fnRes, disc, fetched, upd>>

TSGateNoShortCircuit(p) ==
  /\ inst[p].pc = "ts:gate"
  /\ inst' = [inst EXCEPT ![p].pc = "ts:fetch"]
  /\ UNCHANGED <<fs, scratch, runs, edits, fnReg, fnRes, disc, fetched, upd>>

TSGateIgnoresForce(p) ==
  LET i == inst[p]
      manifest == fs[i.root].manifest IN
  /\ i.pc = "ts:gate"
  /\ inst' = [inst EXCEPT ![p] =
       IF manifest.kind # "none"
       THEN IF manifest.kind = "corrupt" THEN Caught(@, "error:parse")
            ELSE ReturnedSuccess(@, "gate", manifest)
       ELSE [@ EXCEPT !.pc = "ts:fetch"]]
  /\ UNCHANGED <<fs, scratch, runs, edits, fnReg, fnRes, disc, fetched, upd>>

TSGate(p) ==
  LET i == inst[p]
      manifest == fs[i.root].manifest IN
  /\ i.pc = "ts:gate"
  /\ inst' = [inst EXCEPT ![p] =
       IF manifest.kind # "none" /\ ~i.force
       THEN IF manifest.kind = "corrupt" THEN Caught(@, "error:parse")
            ELSE ReturnedSuccess(@, "gate", manifest)
       ELSE [@ EXCEPT !.pc = "ts:fetch"]]
  /\ UNCHANGED <<fs, scratch, runs, edits, fnReg, fnRes, disc, fetched, upd>>

\* fetchRegistry: the response is not ok, the document fails RegistrySchema,
\* or a registry is returned
TSFetchRegistry(p) ==
  /\ inst[p].pc = "ts:fetch"
  /\ \/ \E stage \in {"error:fetch", "error:schema"} :
          inst' = [inst EXCEPT ![p] =
                     Caught([@ EXCEPT !.calls = @ \cup {"fetch"}], stage)]
     \/ \E registry \in InstallRegistries :
          inst' = [inst EXCEPT ![p] =
                     [@ EXCEPT !.pc = "ts:filter", !.registry = registry,
                               !.calls = @ \cup {"fetch"}]]
  /\ UNCHANGED <<fs, scratch, runs, edits, fnReg, fnRes, disc, fetched, upd>>

TSFilterIgnoresDryRun(p) ==
  LET i == inst[p]
      filtered == IF Len(i.custom) > 0
                  THEN Returned(filterContextByIds(i.registry, i.custom))
                  ELSE filterContextByProfile(i.registry, i.profile) IN
  /\ i.pc = "ts:filter"
  /\ inst' = [inst EXCEPT ![p] =
       IF filtered.threw THEN Caught(@, "error:filter")
       ELSE [@ EXCEPT !.pc = "ts:clone", !.components = filtered.value]]
  /\ UNCHANGED <<fs, scratch, runs, edits, fnReg, fnRes, disc, fetched, upd>>

\* Filtering by custom ids or by profile, then the dry-run return
TSFilter(p) ==
  LET i == inst[p]
      filtered == IF Len(i.custom) > 0
                  THEN Returned(filterContextByIds(i.registry, i.custom))
                  ELSE filterContextByProfile(i.registry, i.profile)
      components == filtered.value IN
  /\ i.pc = "ts:filter"
  /\ inst' = [inst EXCEPT ![p] =
       IF filtered.threw THEN Caught(@, "error:filter")
       ELSE IF i.dryRun
       THEN ReturnedSuccess([@ EXCEPT !.components = components], "dryrun",
                            TSManifest(i.profile, i.custom, "dry-run", i.run, components))
       ELSE [@ EXCEPT !.pc = "ts:clone", !.components = components]]
  /\ UNCHANGED <<fs, scratch, runs, edits, fnReg, fnRes, disc, fetched, upd>>


\* The scratch directory of an invocation
TempDir(i) == IF i.variant = "ts" THEN 0 ELSE i.run

\* sparseClone: remove a stale target, clone, set the sparse paths, read HEAD.
\* A failed clone leaves no directory; a failed sparse-checkout leaves the
\* clone with the files of the repository root.
TSSparseClone(p) ==
  LET i == inst[p]
      sparsePaths == getUniquePaths(i.components)
      called == [i EXCEPT !.calls = @ \cup {"clone"}, !.writes = @ \cup {"scratch"}] IN
  /\ i.pc = "ts:clone"
  /\ \E repo \in Repos :
       \/ /\ scratch' = [scratch EXCEPT ![TempDir(i)] = NoScratch]
          /\ inst' = [inst EXCEPT ![p] = Caught(called, "error:clone")]
       \/ /\ scratch' = [scratch EXCEPT ![TempDir(i)] =
                           [exists |-> TRUE, files |-> CheckedOut(repo, <<>>)]]
          /\ inst' = [inst EXCEPT ![p] = Caught(called, "error:sparse")]
       \/ /\ scratch' = [scratch EXCEPT ![TempDir(i)] =
                           [exists |-> TRUE, files |-> CheckedOut(repo, sparsePaths)]]
          /\ inst' = [inst EXCEPT ![p] =
                        [called EXCEPT !.pc = "ts:copy", !.commit = repo.commit]]
  /\ UNCHANGED <<fs, runs, edits, fnReg, fnRes, disc, fetched, upd>>

\* A copy step whose failure is not noticed
TSCopyFilesUnchecked(p) ==
  LET i == inst[p]
      called == [i EXCEPT !.calls = @ \cup {"copy"}, !.writes = @ \cup {"ctx"}] IN
  /\ i.pc = "ts:copy"
  /\ fs' = [fs EXCEPT ![i.root].ctx.exists = TRUE]
  /\ inst' = [inst EXCEPT ![p] = [called EXCEPT !.pc = "ts:manifest"]]
  /\ UNCHANGED <<scratch, runs, edits, fnReg, fnRes, disc, fetched, upd>>

\* copyFiles(sourceContextDir, CONTEXT_DIR): throws when the source subtree
\* is missing; creates the target; cp -r may fail
TSCopyFiles(p) ==
  LET i == inst[p]
      source == scratch[TempDir(i)]
      called == [i EXCEPT !.calls = @ \cup {"copy"}] IN
  /\ i.pc = "ts:copy"
  /\ IF ~(source.exists /\ SourceSubtreePresent(source.files))
     THEN /\ inst' = [inst EXCEPT ![p] = Caught(called, "error:nosource")]
          /\ UNCHANGED fs
     ELSE \/ /\ fs' = [fs EXCEPT ![i.root].ctx.exists = TRUE]
             /\ inst' = [inst EXCEPT ![p] =
                           Caught([called EXCEPT !.writes = @ \cup {"ctx"}], "error:copy")]
          \/ /\ GlobMatches(source.files)
             /\ fs' = [fs EXCEPT ![i.root].ctx = CopyOverlay(@, source.files)]
             /\ inst' = [inst EXCEPT ![p] =
                           [called EXCEPT !.pc = "ts:manifest", !.writes = @ \cup {"ctx"}]]
  /\ UNCHANGED <<scratch, runs, edits, fnReg, fnRes, disc, fetched, upd>>

\* writeFileSync(MANIFEST_FILE, JSON.stringify(manifest)): may throw
TSWriteManifest(p) ==
  LET i == inst[p] IN
  /\ i.pc = "ts:manifest"
  /\ \/ /\ inst' = [inst EXCEPT ![p] = Caught(@, "error:manifest")]
        /\ UNCHANGED fs
     \/ /\ fs' = [fs EXCEPT ![i.root].manifest =
                    TSManifest(i.profile, i.custom, i.commit, i.run, i.components)]
        /\ inst' = [inst EXCEPT ![p] =
                      [@ EXCEPT !.pc = "ts:pointer", !.writes = @ \cup {"manifest"}]]
  /\ UNCHANGED <<scratch, runs, edits, fnReg, fnRes, disc, fetched, upd>>

\* A pointer step that puts the previous manifest back when its write fails
TSWritePointerUndoesManifest(p) ==
  LET i == inst[p] IN
  /\ i.pc = "ts:pointer"
  /\ IF fs[i.root].pointer.exists
     THEN /\ inst' = [inst EXCEPT ![p].pc = "ts:cleanup"]
          /\ UNCHANGED fs
     ELSE \/ /\ inst' = [inst EXCEPT ![p] = Caught(@, "error:pointer")]
             /\ fs' = [fs EXCEPT ![i.root].manifest = i.pre.fs[i.root].manifest]
          \/ /\ fs' = [fs EXCEPT ![i.root].pointer =
                         [exists |-> TRUE, root |-> "plugin/context"]]
             /\ inst' = [inst EXCEPT ![p] =
                           [@ EXCEPT !.pc = "ts:cleanup", !.writes = @ \cup {"pointer"}]]
  /\ UNCHANGED <<scratch, runs, edits, fnReg, fnRes, disc, fetched, upd>>

\* .oac.json at dirname(PLUGIN_ROOT), written only when it does not exist
TSWritePointer(p) ==
  LET i == inst[p] IN
  /\ i.pc = "ts:pointer"
  /\ IF fs[i.root].pointer.exists
     THEN /\ inst' = [inst EXCEPT ![p].pc = "ts:cleanup"]
          /\ UNCHANGED fs
     ELSE \/ /\ inst' = [inst EXCEPT ![p] = Caught(@, "error:pointer")]
             /\ UNCHANGED fs
          \/ /\ fs' = [fs EXCEPT ![i.root].pointer =
                         [exists |-> TRUE, root |-> "plugin/context"]]
             /\ inst' = [inst EXCEPT ![p] =
                           [@ EXCEPT !.pc = "ts:cleanup", !.writes = @ \cup {"pointer"}]]
  /\ UNCHANGED <<scratch, runs, edits, fnReg, fnRes, disc, fetched, upd>>

\* cleanup(tempDir)
TSCleanup(p) ==
  LET i == inst[p] IN
  /\ i.pc = "ts:cleanup"
  /\ scratch' = [scratch EXCEPT ![TempDir(i)] = NoScratch]
  /\ inst' = [inst EXCEPT ![p].pc = "ts:verify"]
  /\ UNCHANGED <<fs, runs, edits, fnReg, fnRes, disc, fetched, upd>>

Missing(ctx, context) ==
  Cardinality({k \in 1..Len(context) : ~ExistsSync(ctx, context[k].local_path)})

\* The verification pass: missing files are a warning, the result is success
TSVerify(p) ==
  LET i == inst[p]
      manifest == TSManifest(i.profile, i.custom, i.commit, i.run, i.components) IN
  /\ i.pc = "ts:verify"
  /\ inst' = [inst EXCEPT ![p] =
       ReturnedSuccess([@ EXCEPT !.missing = Missing(fs[i.root].ctx, manifest.context)],
                       "installed", manifest)]
  /\ UNCHANGED <<fs, scratch, runs, edits, fnReg, fnRes, disc, fetched, upd>>

TSStep(p) ==
  \/ TSStart(p)
  \/ TSCheckGit(p)
  \/ TSGate(p)
  \/ TSFetchRegistry(p)
  \/ TSFilter(p)
  \/ TSSparseClone(p)
  \/ TSCopyFiles(p)
  \/ TSWriteManifest(p)
  \/ TSWritePointer(p)
  \/ TSCleanup(p)
  \/ TSVerify(p)

\* --------------------------------------------- install-context.js (Node)
PROFILES ==
  [core |-> <<"core", "openagents-repo">>,
   full |-> <<"core", "openagents-repo", "development", "ui", "content-creation",
              "data", "product", "learning", "project", "project-intelligence">>]

PROFILE_MAP ==
  [essential |-> "core", standard |-> "core", extended |-> "full",
   specialized |-> "full", all |-> "full", core |-> "core", full |-> "full"]

JSProfileInputs == {"standard", "all", "bogus"}
JSCategoryInputs == {<<"development">>}

\* main(): roots resolved from --global
InstallRoot(isGlobal) == IF isGlobal THEN "global" ELSE "project"

JSStart(p) ==
  \E isGlobal, dryRun, force, git \in BOOLEAN :
    \/ \E profileName \in JSProfileInputs :
         Begin(p, "js", InstallRoot(isGlobal), profileName, <<>>, dryRun, force, git, "js:parse")
    \/ \E customCategories \in JSCategoryInputs :
         Begin(p, "js", InstallRoot(isGlobal), "standard", customCategories,
               dryRun, force, git, "js:parse")

\* process.exit(code), or the end of main()
Exited(i, code, via) ==
  [i EXCEPT !.pc = "done",
            !.result = [returned |-> TRUE, success |-> (code = 0), exit |-> code,
                        via |-> via, manifest |-> NoManifest, errors |-> <<>>]]

\* The profile name the manifest records and the categories to download
JSProfileName(i) == IF Len(i.custom) > 0 THEN "custom" ELSE i.profile
JSCategories(i) ==
  IF Len(i.custom) > 0 THEN i.custom
  ELSE PROFILES[IF i.profile \in DOMAIN PROFILE_MAP THEN PROFILE_MAP[i.profile] ELSE "core"]

\* The argument loop: an unknown --profile value exits with 1
JSParseArgs(p) ==
  LET i == inst[p] IN
  /\ i.pc = "js:parse"
  /\ inst' = [inst EXCEPT ![p] =
       IF i.profile \notin DOMAIN PROFILE_MAP THEN Exited(@, 1, "error:profile")
       ELSE [@ EXCEPT !.pc = "js:gate"]]
  /\ UNCHANGED <<fs, scratch, runs, edits, fnReg, fnRes, disc, fetched, upd>>

\* A gate that fails on a manifest it cannot parse
JSGateParses(p) ==
  LET i == inst[p]
      manifest == fs[i.root].manifest IN
  /\ i.pc = "js:gate"
  /\ inst' = [inst EXCEPT ![p] =
       IF manifest.kind # "none" /\ ~i.force
       THEN IF manifest.kind = "corrupt" THEN Exited(@, 1, "error:parse")
            ELSE Exited(@, 0, "gate")
       ELSE [@ EXCEPT !.pc = "js:deps"]]
  /\ UNCHANGED <<fs, scratch, runs, edits, fnReg, fnRes, disc, fetched, upd>>

\* A gate that also stops when another invocation is installing at the root
JSGateExclusive(p) ==
  LET i == inst[p]
      busy == \E q \in Procs \ {p} :
                inst[q].root = i.root /\ inst[q].pc \in {"js:deps", "js:download",
                                                         "js:manifest", "js:manifest:data"} IN
  /\ i.pc = "js:gate"
  /\ inst' = [inst EXCEPT ![p] =
       IF busy \/ (fs[i.root].manifest.kind # "none" /\ ~i.force) THEN Exited(@, 0, "gate")
       ELSE [@ EXCEPT !.pc = "js:deps"]]
  /\ UNCHANGED <<fs, scratch, runs, edits, fnReg, fnRes, disc, fetched, upd>>

\* Already installed? The manifest is read for the log line only and a
\* parse error is ignored
JSGate(p) ==
  LET i == inst[p] IN
  /\ i.pc = "js:gate"
  /\ inst' = [inst EXCEPT ![p] =
       IF fs[i.root].manifest.kind # "none" /\ ~i.force THEN Exited(@, 0, "gate")
       ELSE [@ EXCEPT !.pc = "js:deps"]]
  /\ UNCHANGED <<fs, scratch, runs, edits, fnReg, fnRes, disc, fetched, upd>>

\* checkDependencies(), then the dry-run return
JSCheckDependencies(p) ==
  LET i == inst[p] IN
  /\ i.pc = "js:deps"
  /\ inst' = [inst EXCEPT ![p] =
       IF ~i.git THEN Exited(@, 1, "error:git")
       ELSE IF i.dryRun THEN Exited(@, 0, "dryrun")
       ELSE [@ EXCEPT !.pc = "js:download"]]
  /\ UNCHANGED <<fs, scratch, runs, edits, fnReg, fnRes, disc, fetched, upd>>

JSSparsePaths(categories) ==
  [k \in 1..Len(categories) |-> CONTEXT_SOURCE_PATH \o <<categories[k]>>]
    \o <<F_nav>>

\* downloadContext: mkdtemp, clone, sparse-checkout, mkdir of the content
\* directory, check of the source subtree, cp. The catch block calls
\* process.exit(1), which ends the process before the finally block runs;
\* the finally block removes the scratch directory on the normal return.
JSDownloadContext(p) ==
  LET i == inst[p]
      tempDir == TempDir(i)
      cloned == [i EXCEPT !.calls = @ \cup {"clone"}, !.writes = @ \cup {"scratch"}]
      copying == [cloned EXCEPT !.writes = @ \cup {"ctx"}] IN
  /\ i.pc = "js:download"
  /\ \E repo \in Repos :
       LET files == CheckedOut(repo, JSSparsePaths(JSCategories(i))) IN
       \/ /\ scratch' = [scratch EXCEPT ![tempDir] = [exists |-> TRUE, files |-> {}]]
          /\ inst' = [inst EXCEPT ![p] = Exited(cloned, 1, "error:clone")]
          /\ UNCHANGED fs
       \/ /\ scratch' = [scratch EXCEPT ![tempDir] =
                           [exists |-> TRUE, files |-> CheckedOut(repo, <<>>)]]
          /\ inst' = [inst EXCEPT ![p] = Exited(cloned, 1, "error:sparse")]
          /\ UNCHANGED fs
       \/ /\ ~SourceSubtreePresent(files)
          /\ scratch' = [scratch EXCEPT ![tempDir] = [exists |-> TRUE, files |-> files]]
          /\ fs' = [fs EXCEPT ![i.root].ctx.exists = TRUE]
          /\ inst' = [inst EXCEPT ![p] = Exited(copying, 1, "error:nosource")]
       \/ /\ SourceSubtreePresent(files)
          /\ scratch' = [scratch EXCEPT ![tempDir] = [exists |-> TRUE, files |-> files]]
          /\ fs' = [fs EXCEPT ![i.root].ctx.exists = TRUE]
          /\ inst' = [inst EXCEPT ![p] =
                        Exited([copying EXCEPT !.calls = @ \cup {"copy"}], 1, "error:copy")]
       \/ /\ SourceSubtreePresent(files) /\ GlobMatches(files)
          /\ scratch' = [scratch EXCEPT ![tempDir] = NoScratch]
          /\ fs' = [fs EXCEPT ![i.root].ctx = CopyOverlay(@, files)]
          /\ inst' = [inst EXCEPT ![p] =
                        [copying EXCEPT !.pc = "js:manifest", !.commit = repo.commit,
                                        !.calls = @ \cup {"copy"}]]
  /\ UNCHANGED <<runs, edits, fnReg, fnRes, disc, fetched, upd>>

\* find "${categoryPath}" -type f | wc -l, for the categories whose
\* directory exists
FileCount(ctx, category) ==
  Cardinality({l \in LocalPaths : ctx.files[l] # "absent" /\ IsPrefix(<<category>>, l)})

JSManifest(profile, categories, commit, at, ctx) ==
  [kind |-> "json", author |-> "js", profile |-> profile, commit |-> commit,
   downloaded_at |-> at, categories |-> categories,
   files |-> [k \in {n \in 1..Len(categories) :
                       Len(<<categories[n]>>) = 1 /\ ExistsSync(ctx, <<categories[n]>>)}
                |-> FileCount(ctx, categories[k])]]

\* createManifest: an exception of writeFileSync ends the process with 1
JSCreateManifest(p) ==
  LET i == inst[p] IN
  /\ i.pc = "js:manifest"
  /\ \/ /\ inst' = [inst EXCEPT ![p] = Exited(@, 1, "error:manifest")]
        /\ UNCHANGED fs
     \/ /\ fs' = [fs EXCEPT ![i.root].manifest =
                    JSManifest(JSProfileName(i), JSCategories(i), i.commit, i.run,
                               fs[i.root].ctx)]
        /\ inst' = [inst EXCEPT ![p] =
                      [@ EXCEPT !.pc = "js:pointer", !.writes = @ \cup {"manifest"}]]
  /\ UNCHANGED <<scratch, runs, edits, fnReg, fnRes, disc, fetched, upd>>

JSWritePointerAnyScope(p) ==
  LET i == inst[p] IN
  /\ i.pc = "js:pointer"
  /\ IF fs[i.root].pointer.exists
     THEN /\ inst' = [inst EXCEPT ![p] = Exited(@, 0, "installed")]
          /\ UNCHANGED fs
     ELSE \/ /\ inst' = [inst EXCEPT ![p] = Exited(@, 1, "error:pointer")]
             /\ UNCHANGED fs
          \/ /\ fs' = [fs EXCEPT ![i.root].pointer =
                         [exists |-> TRUE, root |-> ".claude/context"]]
             /\ inst' = [inst EXCEPT ![p] =
                           Exited([@ EXCEPT !.writes = @ \cup {"pointer"}], 0, "installed")]
  /\ UNCHANGED <<scratch, runs, edits, fnReg, fnRes, disc, fetched, upd>>

\* .oac.json at PROJECT_ROOT: project scope only, only when it does not exist
JSWritePointer(p) ==
  LET i == inst[p] IN
  /\ i.pc = "js:pointer"
  /\ IF i.root = "global" \/ fs[i.root].pointer.exists
     THEN /\ inst' = [inst EXCEPT ![p] = Exited(@, 0, "installed")]
          /\ UNCHANGED fs
     ELSE \/ /\ inst' = [inst EXCEPT ![p] = Exited(@, 1, "error:pointer")]
             /\ UNCHANGED fs
          \/ /\ fs' = [fs EXCEPT ![i.root].pointer =
                         [exists |-> TRUE, root |-> ".claude/context"]]
             /\ inst' = [inst EXCEPT ![p] =
                           Exited([@ EXCEPT !.writes = @ \cup {"pointer"}], 0, "installed")]
  /\ UNCHANGED <<scratch, runs, edits, fnReg, fnRes, disc, fetched, upd>>

JSStep(p) ==
  \/ JSStart(p)
  \/ JSParseArgs(p)
  \/ JSGate(p)
  \/ JSCheckDependencies(p)
  \/ JSDownloadContext(p)
  \/ JSCreateManifest(p)
  \/ JSWritePointer(p)

\* ------------------------------------------- install-context.sh (shell)
ShProfileInputs == {"standard", "all", "specialized"}

\* get_categories: the case statement over the profile name
ShKnownProfiles == {"essential", "standard", "core", "extended", "all", "full"}

get_categories(profile) ==
  IF profile \in {"essential", "standard", "core"} THEN PROFILES["core"]
  ELSE PROFILES["full"]

\* main() of install-context.sh: the argument loop and the scope targets
ShStart(p) ==
  \E global, dry_run, force, git \in BOOLEAN, profile \in ShProfileInputs :
    Begin(p, "sh", InstallRoot(global), profile, <<>>, dry_run, force, git, "sh:categories")

\* categories=$(get_categories "${profile}"): the exit 1 of the unknown
\* profile ends the command substitution and set -e ends the script
ShGetCategories(p) ==
  LET i == inst[p] IN
  /\ i.pc = "sh:categories"
  /\ inst' = [inst EXCEPT ![p] =
       IF i.profile \notin ShKnownProfiles THEN Exited(@, 1, "error:profile")
       ELSE [@ EXCEPT !.pc = "sh:gate"]]
  /\ UNCHANGED <<fs, scratch, runs, edits, fnReg, fnRes, disc, fetched, upd>>

\* A gate that lets a request for another profile through
ShGateSameProfile(p) ==
  LET i == inst[p]
      manifest == fs[i.root].manifest IN
  /\ i.pc = "sh:gate"
  /\ inst' = [inst EXCEPT ![p] =
       IF manifest.kind # "none" /\ ~i.force
          /\ (manifest.kind = "json" => manifest.profile = i.profile)
       THEN Exited(@, 0, "gate")
       ELSE [@ EXCEPT !.pc = "sh:deps"]]
  /\ UNCHANGED <<fs, scratch, runs, edits, fnReg, fnRes, disc, fetched, upd>>

\* Already installed? [ -f "${MANIFEST_FILE}" ] && [ "${force}" = false ]
ShGate(p) ==
  LET i == inst[p] IN
  /\ i.pc = "sh:gate"
  /\ inst' = [inst EXCEPT ![p] =
       IF fs[i.root].manifest.kind # "none" /\ ~i.force THEN Exited(@, 0, "gate")
       ELSE [@ EXCEPT !.pc = "sh:deps"]]
  /\ UNCHANGED <<fs, scratch, runs, edits, fnReg, fnRes, disc, fetched, upd>>

\* check_dependencies, then the dry-run exit
ShCheckDependencies(p) ==
  LET i == inst[p] IN
  /\ i.pc = "sh:deps"
  /\ inst' = [inst EXCEPT ![p] =
       IF ~i.git THEN Exited(@, 1, "error:git")
       ELSE IF i.dryRun THEN Exited(@, 0, "dryrun")
       ELSE [@ EXCEPT !.pc = "sh:download"]]
  /\ UNCHANGED <<fs, scratch, runs, edits, fnReg, fnRes, disc, fetched, upd>>

\* download_context: mktemp -d and the EXIT trap that removes the directory
\* when the script ends. A failed clone is masked by `|| true` and the script
\* ends at git rev-parse; a failed sparse-checkout ends it by set -e; mkdir -p
\* of the content directory precedes the check of the source subtree.
ShDownloadContext(p) ==
  LET i == inst[p]
      temp_dir == TempDir(i)
      cloned == [i EXCEPT !.calls = @ \cup {"clone"}, !.writes = @ \cup {"scratch"}]
      copying == [cloned EXCEPT !.writes = @ \cup {"ctx"}] IN
  /\ i.pc = "sh:download"
  /\ \E repo \in Repos :
       LET files == CheckedOut(repo, JSSparsePaths(get_categories(i.profile))) IN
       \/ /\ scratch' = [scratch EXCEPT ![temp_dir] = NoScratch]
          /\ inst' = [inst EXCEPT ![p] = Exited(cloned, 128, "error:clone")]
          /\ UNCHANGED fs
       \/ /\ scratch' = [scratch EXCEPT ![temp_dir] = NoScratch]
          /\ inst' = [inst EXCEPT ![p] = Exited(cloned, 128, "error:sparse")]
          /\ UNCHANGED fs
       \/ /\ ~SourceSubtreePresent(files)
          /\ scratch' = [scratch EXCEPT ![temp_dir] = NoScratch]
          /\ fs' = [fs EXCEPT ![i.root].ctx.exists = TRUE]
          /\ inst' = [inst EXCEPT ![p] = Exited(copying, 1, "error:nosource")]
       \/ /\ SourceSubtreePresent(files)
          /\ scratch' = [scratch EXCEPT ![temp_dir] = NoScratch]
          /\ fs' = [fs EXCEPT ![i.root].ctx.exists = TRUE]
          /\ inst' = [inst EXCEPT ![p] =
                        Exited([copying EXCEPT !.calls = @ \cup {"copy"}], 1, "error:copy")]
       \/ /\ SourceSubtreePresent(files) /\ GlobMatches(files)
          /\ scratch' = [scratch EXCEPT ![temp_dir] = [exists |-> TRUE, files |-> files]]
          /\ fs' = [fs EXCEPT ![i.root].ctx = CopyOverlay(@, files)]
          /\ inst' = [inst EXCEPT ![p] =
                        [copying EXCEPT !.pc = "sh:manifest", !.commit = repo.commit,
                                        !.calls = @ \cup {"copy"}]]
  /\ UNCHANGED <<runs, edits, fnReg, fnRes, disc, fetched, upd>>

\* The manifest of write_manifest: a file count for every category, 0 for a
\* category without a directory
ShManifest(profile, categories, commit, at, ctx) ==
  [kind |-> "json", author |-> "sh", profile |-> profile, commit |-> commit,
   downloaded_at |-> at, categories |-> categories,
   files |-> [k \in 1..Len(categories) |->
                IF ExistsSync(ctx, <<categories[k]>>)
                THEN FileCount(ctx, categories[k]) ELSE 0]]

\* write_manifest: a failed redirection ends the script, and the EXIT trap
\* removes the scratch directory
ShWriteManifest(p) ==
  LET i == inst[p] IN
  /\ i.pc = "sh:manifest"
  /\ \/ /\ inst' = [inst EXCEPT ![p] = Exited(@, 1, "error:manifest")]
        /\ scratch' = [scratch EXCEPT ![TempDir(i)] = NoScratch]
        /\ UNCHANGED fs
     \/ /\ fs' = [fs EXCEPT ![i.root].manifest =
                    ShManifest(i.profile, get_categories(i.profile), i.commit, i.run,
                               fs[i.root].ctx)]
        /\ inst' = [inst EXCEPT ![p] =
                      [@ EXCEPT !.pc = "sh:pointer", !.writes = @ \cup {"manifest"}]]
        /\ UNCHANGED scratch
  /\ UNCHANGED <<runs, edits, fnReg, fnRes, disc, fetched, upd>>

\* .oac.json for a project install, written only when it does not exist;
\* then the script ends and the EXIT trap removes the scratch directory
ShWritePointer(p) ==
  LET i == inst[p] IN
  /\ i.pc = "sh:pointer"
  /\ IF i.root = "global" \/ fs[i.root].pointer.exists
     THEN /\ inst' = [inst EXCEPT ![p] = Exited(@, 0, "installed")]
          /\ UNCHANGED fs
     ELSE \/ /\ inst' = [inst EXCEPT ![p] = Exited(@, 1, "error:pointer")]
             /\ UNCHANGED fs
          \/ /\ fs' = [fs EXCEPT ![i.root].pointer =
                         [exists |-> TRUE, root |-> ".claude/context"]]
             /\ inst' = [inst EXCEPT ![p] =
                           Exited([@ EXCEPT !.writes = @ \cup {"pointer"}], 0, "installed")]
  /\ scratch' = [scratch EXCEPT ![TempDir(i)] = NoScratch]
  /\ UNCHANGED <<runs, edits, fnReg, fnRes, disc, fetched, upd>>

ShStep(p) ==
  \/ ShStart(p)
  \/ ShGetCategories(p)
  \/ ShGate(p)
  \/ ShCheckDependencies(p)
  \/ ShDownloadContext(p)
  \/ ShWriteManifest(p)
  \/ ShWritePointer(p)

\* The installer process is gone; the next invocation is a new process
Exit(p) ==
  /\ inst[p].pc = "done"
  /\ inst' = [inst EXCEPT ![p] =
                [Idle EXCEPT !.root = inst[p].root, !.variant = inst[p].variant]]
  /\ UNCHANGED <<fs, scratch, runs, edits, fnReg, fnRes, disc, fetched, upd>>

\* ------------------------------------------------------------ environment
Quiescent == \A p \in Procs : inst[p].pc = "idle"

\* A manual edit of an installed file
EditFile ==
  /\ Quiescent
  /\ edits < MaxEdits
  /\ \E r \in Roots, l \in LocalPaths :
       /\ fs[r].ctx.files[l] = "upstream"
       /\ fs' = [fs EXCEPT ![r].ctx.files[l] = "edited"]
  /\ edits' = edits + 1
  /\ UNCHANGED <<scratch, inst, runs, fnReg, fnRes, disc, fetched, upd>>

\* The manifest file is damaged outside the installer
DamageManifest ==
  /\ Quiescent
  /\ edits < MaxEdits
  /\ \E r \in Roots :
       /\ fs[r].manifest.kind = "json"
       /\ fs' = [fs EXCEPT ![r].manifest = CorruptManifest]
  /\ edits' = edits + 1
  /\ UNCHANGED <<scratch, inst, runs, fnReg, fnRes, disc, fetched, upd>>

\* The user pins a context root by hand: .oac.json with a root of their own
CreatePointerByHand ==
  /\ Quiescent
  /\ edits < MaxEdits
  /\ \E r \in Roots :
       /\ \A q \in Procs : inst[q].root \in {"", r}
       /\ ~fs[r].pointer.exists
       /\ fs' = [fs EXCEPT ![r].pointer = [exists |-> TRUE, root |-> "docs"]]
  /\ edits' = edits + 1
  /\ UNCHANGED <<scratch, inst, runs, fnReg, fnRes, disc, fetched, upd>>

Next ==
  \/ TSStep("p1")
  \/ JSStep("p1")
  \/ ShStep("p1")
  \/ Exit("p1")
  \/ EditFile
  \/ DamageManifest
  \/ CreatePointerByHand

Spec == Init /\ [][Next]_vars


\* ------------------------------------- the pure registry functions, applied
FnIds == {"core-standards", "openagents-repo"}
FnCategories == {"essential", "core", "standard", "extended", "specialized", "other"}
FnPaths == {F_a, F_b, F_c, F_readme}
FnComponents == {Comp(id, category, path) :
                   id \in FnIds, category \in FnCategories, path \in FnPaths}

RECURSIVE SeqsUpTo(_, _)
SeqsUpTo(S, n) ==
  IF n = 0 THEN {<<>>}
  ELSE LET shorter == SeqsUpTo(S, n - 1) IN
       shorter \cup {Append(q, x) : q \in shorter, x \in S}

FnRegistries ==
  {RegNoContexts} \cup
  {[defined |-> TRUE, contexts |-> q] : q \in SeqsUpTo(FnComponents, MaxComps)}

FnProfileInputs == Profiles \cup {"bogus"}
FnIdInputs == {<<>>, <<"core-standards">>, <<"does-not-exist">>,
               <<"core-standards", "does-not-exist">>,
               <<"openagents-repo", "core-standards">>}

FnInit ==
  /\ InstallInit
  /\ fnReg \in FnRegistries
  /\ fnRes = NoCall
  /\ disc = DiscIdle
  /\ fetched = FetchIdle
  /\ upd = UpdIdle

FnFilterByProfile ==
  /\ fnRes = NoCall
  /\ \E profile \in FnProfileInputs :
       LET r == filterContextByProfile(fnReg, profile) IN
       fnRes' = [fn |-> "filterContextByProfile", profile |-> profile, ids |-> <<>>,
                 threw |-> r.threw, value |-> r.value]
  /\ UNCHANGED <<fs, scratch, inst, runs, edits, fnReg, disc, fetched, upd>>

FnFilterByIds ==
  /\ fnRes = NoCall
  /\ \E ids \in FnIdInputs :
       fnRes' = [fn |-> "filterContextByIds", profile |-> "", ids |-> ids,
                 threw |-> FALSE, value |-> filterContextByIds(fnReg, ids)]
  /\ UNCHANGED <<fs, scratch, inst, runs, edits, fnReg, disc, fetched, upd>>

FnGetUniquePaths ==
  /\ fnRes = NoCall
  /\ fnRes' = [fn |-> "getUniquePaths", profile |-> "", ids |-> <<>>,
               threw |-> FALSE, value |-> getUniquePaths(Contexts(fnReg))]
  /\ UNCHANGED <<fs, scratch, inst, runs, edits, fnReg, disc, fetched, upd>>

FnNext ==
  \/ FnFilterByProfile
  \/ FnFilterByIds
  \/ FnGetUniquePaths

FnSpec == FnInit /\ [][FnNext]_vars


\* ------------------------------------------ context discovery, applied
\* The roots an .oac.json may name: a chain candidate or a directory of the
\* user's own
PointerRoots == Range(ChainCandidates) \cup {"docs"}

DiscEnvs ==
  {[pointer |-> ptr, nav |-> nav] :
     ptr \in {[exists |-> FALSE, root |-> ""]} \cup
             {[exists |-> TRUE, root |-> r] : r \in PointerRoots},
     nav \in SUBSET PointerRoots}

DiscInit ==
  /\ InstallInit
  /\ fnReg = NoRegistry
  /\ fnRes = NoCall
  /\ disc \in {[env |-> env, res |-> NoDiscovery, changed |-> FALSE] : env \in DiscEnvs}
  /\ fetched = FetchIdle
  /\ upd = UpdIdle

\* A resolver that removes the .oac.json it found stale
DiscoverRemovesStale ==
  /\ \E res \in DiscoverContextRoot(disc.env) :
       disc' = [disc EXCEPT !.res = res,
                            !.env.pointer = IF FastPathResolves(disc.env) THEN @
                                            ELSE [exists |-> FALSE, root |-> ""]]
  /\ UNCHANGED <<fs, scratch, inst, runs, edits, fnReg, fnRes, fetched, upd>>

\* context-scout executes the protocol and returns its result
Discover ==
  /\ \E res \in DiscoverContextRoot(disc.env) : disc' = [disc EXCEPT !.res = res]
  /\ UNCHANGED <<fs, scratch, inst, runs, edits, fnReg, fnRes, fetched, upd>>

\* The main agent writes .oac.json with the resolved root when signalled
WriteOacJson ==
  /\ disc.res.write_oac_json
  /\ disc' = [env |-> [disc.env EXCEPT !.pointer =
                         [exists |-> TRUE, root |-> disc.res.context_root]],
              res |-> NoDiscovery, changed |-> disc.changed]
  /\ UNCHANGED <<fs, scratch, inst, runs, edits, fnReg, fnRes, fetched, upd>>

\* Between two resolutions a content directory gains or loses its
\* navigation.md (an install, a removal, a move); changed records that this
\* happened while .oac.json existed
ChangeContent ==
  /\ \E r \in PointerRoots :
       disc' = [env |-> [disc.env EXCEPT !.nav = IF r \in @ THEN @ \ {r} ELSE @ \cup {r}],
                res |-> NoDiscovery,
                changed |-> disc.changed \/ disc.env.pointer.exists]
  /\ UNCHANGED <<fs, scratch, inst, runs, edits, fnReg, fnRes, fetched, upd>>

DiscNext ==
  \/ Discover
  \/ WriteOacJson
  \/ ChangeContent

DiscSpec == DiscInit /\ [][DiscNext]_vars

\* ---------------------------------------------- fetchRegistry, applied
DocCategories == {Str("core"), Str("other"), Undefined}
DocComponents ==
  {[id |-> Str("a"), category |-> category, path |-> Str(F_a)] :
     category \in DocCategories}

Documents ==
  {[version |-> version, categories |-> categories, contexts |-> contexts] :
     version \in {Str("1.0.0"), Undefined},
     categories \in {[t |-> "undefined", keys |-> {}], [t |-> "array", keys |-> {}]}
                    \cup {[t |-> "record", keys |-> keys] :
                            keys \in {{}, {"core"}, {"core", "other"}}},
     contexts \in {[t |-> "undefined", items |-> <<>>], [t |-> "string", items |-> <<>>]}
                  \cup {[t |-> "array", items |-> q] :
                          q \in SeqsUpTo(DocComponents, MaxComps)}}

FetchInit ==
  /\ InstallInit
  /\ fnReg = NoRegistry
  /\ fnRes = NoCall
  /\ disc = DiscIdle
  /\ fetched \in {[response |-> [ok |-> ok, body |-> body], res |-> NoFetch] :
                    ok \in BOOLEAN, body \in Documents}
  /\ upd = UpdIdle

FetchRegistry ==
  /\ fetched.res = NoFetch
  /\ fetched' = [fetched EXCEPT !.res = fetchRegistry(fetched.response)]
  /\ UNCHANGED <<fs, scratch, inst, runs, edits, fnReg, fnRes, disc, upd>>

FetchNext == FetchRegistry

FetchSpec == FetchInit /\ [][FetchNext]_vars


\* ------------------------------------------------------ updater, applied
\* update.sh started on an install directory: every file holds its original
\* content; a path with .. in its name is one the guard calls suspicious
UpdInit ==
  /\ InstallInit
  /\ fnReg = NoRegistry
  /\ fnRes = NoCall
  /\ disc = DiscIdle
  /\ fetched = FetchIdle
  /\ upd \in {[UpdIdle EXCEPT !.pc = "guard", !.cur = 1, !.suspicious = sus] :
                sus \in SUBSET UpdFiles}

\* update_all_components: the loop goes on to the next file, whatever
\* update_component returned; after the last file main ends
NextFile(u, status) ==
  [u EXCEPT !.status[u.cur] = status,
            !.cur = @ + 1,
            !.pc = IF u.cur + 1 > MaxFiles THEN "exit" ELSE "guard"]

\* A command of the script runs only when no trapped signal is pending: bash
\* runs the trap handler before the next command
Runs(pc) == upd.pc = pc /\ upd.pending = ""

\* update_component: the guard against paths that escaped the install dir
UpdGuard ==
  /\ Runs("guard")
  /\ upd' = IF upd.cur \in upd.suspicious THEN NextFile(upd, "failed")
            ELSE [upd EXCEPT !.pc = "cp"]
  /\ UNCHANGED <<fs, scratch, inst, runs, edits, fnReg, fnRes, disc, fetched>>

\* cp "$path" "$backup"
UpdBackup ==
  /\ Runs("cp")
  /\ upd' = [upd EXCEPT !.backup[upd.cur] = upd.files[upd.cur], !.pc = "track"]
  /\ UNCHANGED <<fs, scratch, inst, runs, edits, fnReg, fnRes, disc, fetched>>

\* BACKUP_FILES+=("$backup")
UpdTrack ==
  /\ Runs("track")
  /\ upd' = [upd EXCEPT !.BACKUP_FILES = @ \cup {upd.cur}, !.pc = "curl"]
  /\ UNCHANGED <<fs, scratch, inst, runs, edits, fnReg, fnRes, disc, fetched>>

\* curl -fsSL "$url" -o "$path": the download completes, fails before the
\* first byte of the body (the file is not opened), or breaks off after the
\* file was truncated and partly written
UpdCurl ==
  /\ Runs("curl")
  /\ \/ upd' = [upd EXCEPT !.files[upd.cur] = "new", !.pc = "rm"]
     \/ upd' = [upd EXCEPT !.pc = "restore"]
     \/ upd' = [upd EXCEPT !.files[upd.cur] = "partial", !.pc = "restore"]
  /\ UNCHANGED <<fs, scratch, inst, runs, edits, fnReg, fnRes, disc, fetched>>

\* rm -f "$backup"
UpdRemoveBackup ==
  /\ Runs("rm")
  /\ upd' = [upd EXCEPT !.backup[upd.cur] = "none", !.pc = "untrack"]
  /\ UNCHANGED <<fs, scratch, inst, runs, edits, fnReg, fnRes, disc, fetched>>

\* the backup is taken out of BACKUP_FILES; update_component returns 0
UpdUntrack ==
  /\ Runs("untrack")
  /\ upd' = NextFile([upd EXCEPT !.BACKUP_FILES = @ \ {upd.cur}], "updated")
  /\ UNCHANGED <<fs, scratch, inst, runs, edits, fnReg, fnRes, disc, fetched>>

\* mv "$backup" "$path"; return 1. Without the backup file mv fails and the
\* path keeps what curl left
UpdRestore ==
  /\ Runs("restore")
  /\ upd' = NextFile(IF upd.backup[upd.cur] = "none" THEN upd
                     ELSE [upd EXCEPT !.files[upd.cur] = upd.backup[upd.cur],
                                      !.backup[upd.cur] = "none"],
                     "failed")
  /\ UNCHANGED <<fs, scratch, inst, runs, edits, fnReg, fnRes, disc, fetched>>

\* cleanup_backups: rm -f every backup file that BACKUP_FILES holds
cleanup_backups(u) ==
  [u EXCEPT !.backup = [f \in UpdFiles |-> IF f \in u.BACKUP_FILES THEN "none" ELSE @[f]]]

\* the script ends: trap cleanup_backups EXIT
UpdExit ==
  /\ Runs("exit")
  /\ upd' = [cleanup_backups(upd) EXCEPT !.pc = "done"]
  /\ UNCHANGED <<fs, scratch, inst, runs, edits, fnReg, fnRes, disc, fetched>>

\* INT or TERM is sent to the running script
UpdSignal ==
  /\ upd.pc \notin {"idle", "done"}
  /\ upd.pending = ""
  /\ upd.signals < MaxSignals
  /\ \E sig \in {"INT", "TERM"} :
       upd' = [upd EXCEPT !.pending = sig, !.signals = @ + 1]
  /\ UNCHANGED <<fs, scratch, inst, runs, edits, fnReg, fnRes, disc, fetched>>

\* trap cleanup_backups INT TERM: the handler runs between two commands and,
\* as it does not exit, the script goes on with the next command
UpdTrap ==
  /\ upd.pc \notin {"idle", "done"}
  /\ upd.pending # ""
  /\ upd' = [cleanup_backups(upd) EXCEPT !.pending = ""]
  /\ UNCHANGED <<fs, scratch, inst, runs, edits, fnReg, fnRes, disc, fetched>>

UpdNext ==
  \/ UpdGuard
  \/ UpdBackup
  \/ UpdTrack
  \/ UpdCurl
  \/ UpdRemoveBackup
  \/ UpdUntrack
  \/ UpdRestore
  \/ UpdExit
  \/ UpdSignal
  \/ UpdTrap

UpdSpec == UpdInit /\ [][UpdNext]_vars

\* ------------------------------------------------- concurrent installs
\* Two installer processes run at the same time at one scope root
ConcStart(p) ==
  \E force \in BOOLEAN :
    \/ Begin(p, "ts", "plugin", "essential", <<>>, FALSE, force, TRUE, "ts:gitcheck")
    \/ Begin(p, "js", "project", "standard", <<>>, FALSE, force, TRUE, "js:parse")

\* writeFileSync(MANIFEST_FILE, ...) seen by another process: the file is
\* opened with flag 'w', which truncates it, before any byte of the new
\* document is written
TSOpenManifest(p) ==
  LET i == inst[p] IN
  /\ i.pc = "ts:manifest"
  /\ \/ /\ inst' = [inst EXCEPT ![p] = Caught(@, "error:manifest")]
        /\ UNCHANGED fs
     \/ /\ fs' = [fs EXCEPT ![i.root].manifest = CorruptManifest]
        /\ inst' = [inst EXCEPT ![p] =
                      [@ EXCEPT !.pc = "ts:manifest:data", !.writes = @ \cup {"manifest"}]]
  /\ UNCHANGED <<scratch, runs, edits, fnReg, fnRes, disc, fetched, upd>>

\* the write and close of writeFileSync: a failed write leaves the truncated
\* file behind
TSWriteManifestData(p) ==
  LET i == inst[p] IN
  /\ i.pc = "ts:manifest:data"
  /\ \/ /\ inst' = [inst EXCEPT ![p] = Caught(@, "error:manifest")]
        /\ UNCHANGED fs
     \/ /\ fs' = [fs EXCEPT ![i.root].manifest =
                    TSManifest(i.profile, i.custom, i.commit, i.run, i.components)]
        /\ inst' = [inst EXCEPT ![p].pc = "ts:pointer"]
  /\ UNCHANGED <<scratch, runs, edits, fnReg, fnRes, disc, fetched, upd>>

\* createManifest seen by another process: the file counts are taken, then
\* writeFileSync(manifestFile, ...) truncates the file
JSOpenManifest(p) ==
  LET i == inst[p] IN
  /\ i.pc = "js:manifest"
  /\ \/ /\ inst' = [inst EXCEPT ![p] = Exited(@, 1, "error:manifest")]
        /\ UNCHANGED fs
     \/ /\ fs' = [fs EXCEPT ![i.root].manifest = CorruptManifest]
        /\ inst' = [inst EXCEPT ![p] =
                      [@ EXCEPT !.pc = "js:manifest:data", !.writes = @ \cup {"manifest"}]]
  /\ UNCHANGED <<scratch, runs, edits, fnReg, fnRes, disc, fetched, upd>>

JSWriteManifestData(p) ==
  LET i == inst[p] IN
  /\ i.pc = "js:manifest:data"
  /\ \/ /\ inst' = [inst EXCEPT ![p] = Exited(@, 1, "error:manifest")]
        /\ UNCHANGED fs
     \/ /\ fs' = [fs EXCEPT ![i.root].manifest =
                    JSManifest(JSProfileName(i), JSCategories(i), i.commit, i.run,
                               fs[i.root].ctx)]
        /\ inst' = [inst EXCEPT ![p].pc = "js:pointer"]
  /\ UNCHANGED <<scratch, runs, edits, fnReg, fnRes, disc, fetched, upd>>

ConcNext ==
  \E p \in Procs :
    \/ ConcStart(p)
    \/ TSCheckGit(p)
    \/ TSGate(p)
    \/ TSFetchRegistry(p)
    \/ TSFilter(p)
    \/ TSSparseClone(p)
    \/ TSCopyFiles(p)
    \/ TSOpenManifest(p)
    \/ TSWriteManifestData(p)
    \/ TSWritePointer(p)
    \/ TSCleanup(p)
    \/ TSVerify(p)
    \/ JSParseArgs(p)
    \/ JSGate(p)
    \/ JSCheckDependencies(p)
    \/ JSDownloadContext(p)
    \/ JSOpenManifest(p)
    \/ JSWriteManifestData(p)
    \/ JSWritePointer(p)
    \/ Exit(p)

ConcSpec == Init /\ [][ConcNext]_vars


\* ===================================================== verified properties
\* The cumulative order of the profiles; "all" is above every other profile
ProfileRank ==
  [essential |-> 1, standard |-> 2, extended |-> 3, specialized |-> 4, all |-> 5]

\* q is the selection of the elements of s that satisfy Keep, in the order of s
IsOrderedSelection(q, s, Keep(_)) ==
  LET kept == {k \in 1..Len(s) : Keep(s[k])} IN
  /\ Len(q) = Cardinality(kept)
  /\ \A j \in 1..Len(q) :
       \E k \in kept : /\ Cardinality({m \in kept : m < k}) = j - 1
                       /\ q[j] = s[k]

\* C3 - Profile monotonicity: the result of filterContextByProfile for a
\* profile is contained in the result for every profile later in the order
\* essential, standard, extended, specialized, and in the result for "all".
C3_ProfileMonotonicity ==
  (fnRes.fn = "filterContextByProfile" /\ fnRes.profile \in Profiles) =>
    /\ ~fnRes.threw
    /\ \A B \in Profiles :
         ProfileRank[fnRes.profile] <= ProfileRank[B] =>
           /\ ~filterContextByProfile(fnReg, B).threw
           /\ Range(fnRes.value) \subseteq Range(filterContextByProfile(fnReg, B).value)

\* A core component is selected by "essential", so it has to be selected by
\* "standard" too, which also selects a component "essential" leaves out
C3_Witness ==
  /\ fnRes.fn = "filterContextByProfile"
  /\ fnRes.profile = "essential"
  /\ \E c \in Range(fnRes.value) : c.category = "core"
  /\ Len(filterContextByProfile(fnReg, "standard").value) > Len(fnRes.value)

\* C4 - filterContextByProfile returns, for a profile other than "all",
\* exactly the context components whose category the profile allows, in
\* registry order, none omitted or duplicated, and for "all" every context
\* component; "standard" selects the essential and core components and no
\* extended one.
C4_FilterByProfileExact ==
  (fnRes.fn = "filterContextByProfile" /\ fnRes.profile \in Profiles) =>
    /\ ~fnRes.threw
    /\ fnRes.profile = "all" => fnRes.value = Contexts(fnReg)
    /\ fnRes.profile # "all" =>
         IsOrderedSelection(fnRes.value, Contexts(fnReg),
           LAMBDA c : \E k \in 1..Len(profileCategories[fnRes.profile]) :
                        profileCategories[fnRes.profile][k] = c.category)
    /\ fnRes.profile = "standard" =>
         \A c \in Range(Contexts(fnReg)) :
           /\ c.category \in {"essential", "core"} => c \in Range(fnRes.value)
           /\ c.category = "extended" => c \notin Range(fnRes.value)

C4_Witness ==
  /\ fnRes.fn = "filterContextByProfile"
  /\ fnRes.profile = "standard"
  /\ Len(Contexts(fnReg)) = 2
  /\ Contexts(fnReg)[1].category = "extended"
  /\ Contexts(fnReg)[2].category = "core"
  /\ fnRes.value = <<Contexts(fnReg)[2]>>

\* C5 - filterContextByIds returns exactly the context components whose id
\* is in the id list, in registry order; an id that matches no component is
\* dropped and raises no error.
C5_FilterByIdsExact ==
  fnRes.fn = "filterContextByIds" =>
    /\ ~fnRes.threw
    /\ IsOrderedSelection(fnRes.value, Contexts(fnReg),
         LAMBDA c : \E k \in 1..Len(fnRes.ids) : fnRes.ids[k] = c.id)

\* The explicit ids ["core-standards", "does-not-exist"]: one component resolves
C5_Witness ==
  /\ fnRes.fn = "filterContextByIds"
  /\ fnRes.ids = <<"core-standards", "does-not-exist">>
  /\ Len(Contexts(fnReg)) = 2
  /\ Contexts(fnReg)[1].id = "openagents-repo"
  /\ fnRes.value = <<Contexts(fnReg)[2]>>

\* The directory string of a path: the path without its last segment, the
\* empty string for a path without a directory part
ContainingDirectory(path) ==
  IF Len(path) <= 1 THEN EmptyString ELSE SubSeq(path, 1, Len(path) - 1)

NoDuplicates(q) == \A j, k \in 1..Len(q) : q[j] = q[k] => j = k

\* C6 as claimed - getUniquePaths is exactly the deduplicated set of the
\* containing directories of the components' paths, the containing
\* directory of every given component included.
C6_AsClaimed ==
  fnRes.fn = "getUniquePaths" =>
    /\ NoDuplicates(fnRes.value)
    /\ Range(fnRes.value) =
         {ContainingDirectory(c.path) : c \in Range(Contexts(fnReg))}

\* C6 - getUniquePaths is exactly the deduplicated set of the non-empty
\* containing directories of the components' paths: two components of one
\* directory yield one path, and a component whose path has no directory
\* part contributes nothing.
C6_UniquePaths ==
  fnRes.fn = "getUniquePaths" =>
    /\ NoDuplicates(fnRes.value)
    /\ Range(fnRes.value) =
         {ContainingDirectory(c.path) : c \in Range(Contexts(fnReg))} \ {EmptyString}

C6_Witness ==
  /\ fnRes.fn = "getUniquePaths"
  /\ Len(Contexts(fnReg)) = 2
  /\ Contexts(fnReg)[1].path = F_a
  /\ Contexts(fnReg)[2].path = F_b
  /\ fnRes.value = <<<<".opencode", "context", "core">>>>


\* ------------------------------------------------- the install orchestrator
\* The manifest file at the scope root when the invocation started
PreManifest(i) == i.pre.fs[i.root].manifest

\* The invocation made no write: files and scratch directories are as before
Untouched(i) ==
  /\ i.writes = {}
  /\ fs = i.pre.fs
  /\ scratch = i.pre.scratch

\* The component list the invocation's filter selects from its registry
FilteredList(i) ==
  IF Len(i.custom) > 0 THEN filterContextByIds(i.registry, i.custom)
  ELSE filterContextByProfile(i.registry, i.profile).value

\* C1 as claimed - with a manifest at the scope root and no force flag the
\* install reports success, fetches, clones and copies nothing and leaves
\* the manifest as it was.
C1_AsClaimed ==
  \A p \in Procs : LET i == inst[p] IN
    (i.pc = "done" /\ PreManifest(i).kind # "none" /\ ~i.force) =>
      /\ i.result.success
      /\ i.calls = {}
      /\ Untouched(i)

\* C1 - Idempotence: with a manifest at the scope root and no force flag the
\* install fetches no registry, clones and copies nothing and leaves every
\* file, the manifest included, as it was. It reports success unless it
\* stops before the gate (TypeScript: git is not available; Node: the
\* profile name is unknown) or, in the TypeScript variant, the existing
\* manifest is not parseable JSON; in those cases it reports failure.
C1_Idempotence ==
  \A p \in Procs : LET i == inst[p] IN
    (i.pc = "done" /\ PreManifest(i).kind # "none" /\ ~i.force) =>
      /\ i.calls = {}
      /\ Untouched(i)
      /\ i.variant = "ts" =>
           (i.result.success <=> (i.git /\ PreManifest(i).kind = "json"))
      /\ i.variant = "ts" /\ i.result.success => i.result.manifest = PreManifest(i)
      /\ i.variant = "js" => (i.result.success <=> i.profile \in DOMAIN PROFILE_MAP)
      /\ i.result.exit = (IF i.result.success THEN 0 ELSE 1)

\* The second install of the same profile, without force
C1_Witness ==
  \E p \in Procs : LET i == inst[p] IN
    /\ i.pc = "done" /\ i.variant = "ts" /\ ~i.force /\ ~i.dryRun
    /\ i.run = 2
    /\ PreManifest(i).kind = "json"
    /\ PreManifest(i).profile = i.profile
    /\ i.result.success /\ i.result.via = "gate"

\* C2 as claimed - a dry run never clones or copies, writes nothing, and
\* returns success with the would-be manifest of the filtered components.
C2_AsClaimed ==
  \A p \in Procs : LET i == inst[p] IN
    (i.pc = "done" /\ i.dryRun) =>
      /\ i.calls \cap {"clone", "copy"} = {}
      /\ Untouched(i)
      /\ i.result.success
      /\ i.variant = "ts" =>
           i.result.manifest =
             TSManifest(i.profile, i.custom, "dry-run", i.run, FilteredList(i))

\* C2 - Dry-run purity: a dry run never clones or copies and writes
\* nothing, so files, manifest, pointer and scratch directories are as
\* before. When git is available, the idempotency gate does not
\* short-circuit, and the registry fetch, validation and filtering succeed,
\* the TypeScript installer returns success with the would-be manifest built
\* from the filtered component list.
C2_DryRunPurity ==
  \A p \in Procs : LET i == inst[p] IN
    (i.pc = "done" /\ i.dryRun) =>
      /\ i.calls \cap {"clone", "copy"} = {}
      /\ Untouched(i)
      /\ ( /\ i.variant = "ts"
           /\ i.git
           /\ (PreManifest(i).kind = "none" \/ i.force)
           /\ i.result.via \notin {"error:fetch", "error:schema"}
           /\ (Len(i.custom) > 0 \/ i.profile \in Profiles) ) =>
             /\ i.result.success
             /\ i.result.exit = 0
             /\ "fetch" \in i.calls
             /\ i.result.manifest =
                  TSManifest(i.profile, i.custom, "dry-run", i.run, FilteredList(i))

\* A dry run of a profile reports components while an earlier install's
\* files are on disk
C2_Witness ==
  \E p \in Procs : LET i == inst[p] IN
    /\ i.pc = "done" /\ i.variant = "ts" /\ i.dryRun /\ i.force
    /\ PreManifest(i).kind = "json"
    /\ i.result.success
    /\ Len(i.result.manifest.context) >= 2
    /\ i.result.manifest # PreManifest(i)

\* The invocation installed: transport, manifest and pointer steps are done
Installed(i) ==
  /\ i.pc = "done"
  /\ ~i.dryRun
  /\ i.result.success
  /\ "manifest" \in i.writes

Upstream(commit, path) ==
  /\ path \in RepoOfCommit(commit).files
  /\ IsPrefix(CONTEXT_SOURCE_PATH, path)
  /\ Len(path) > Len(CONTEXT_SOURCE_PATH)
  /\ path[Len(CONTEXT_SOURCE_PATH) + 1] \notin DotEntries

C8_AsClaimed ==
  \A p \in Procs : LET i == inst[p] IN
    (i.variant = "ts" /\ i.pc = "done" /\ i.force /\ PreManifest(i).kind # "none") =>
      /\ i.result.via # "gate"
      /\ i.result.success =>
           /\ i.calls = {"fetch", "clone", "copy"}
           /\ fs[i.root].manifest =
                TSManifest(i.profile, i.custom, i.commit, i.run, FilteredList(i))

\* C8 - a non-dry-run install with the force flag at a scope with a
\* manifest never short-circuits: it fetches the registry whenever git is
\* available, and on success it has fetched, cloned and copied and the
\* manifest on disk is exactly the new snapshot (its profile, the cloned
\* commit, the newly filtered component list), nothing of the previous one.
C8_ForcedReinstall ==
  \A p \in Procs : LET i == inst[p] IN
    (i.variant = "ts" /\ i.pc = "done" /\ i.force /\ ~i.dryRun
       /\ PreManifest(i).kind # "none") =>
      /\ i.result.via # "gate"
      /\ i.git => "fetch" \in i.calls
      /\ i.result.success =>
           /\ i.calls = {"fetch", "clone", "copy"}
           /\ fs[i.root].manifest =
                TSManifest(i.profile, i.custom, i.commit, i.run, FilteredList(i))
           /\ i.commit \in {repo.commit : repo \in Repos}

\* A forced reinstall replaces a manifest of another profile and commit
C8_Witness ==
  \E p \in Procs : LET i == inst[p] IN
    /\ i.variant = "ts" /\ Installed(i) /\ i.force
    /\ PreManifest(i).kind = "json"
    /\ PreManifest(i).profile = "all" /\ i.profile = "essential"
    /\ PreManifest(i).commit # i.commit
    /\ Len(fs[i.root].manifest.context) < Len(PreManifest(i).context)

\* The files the invocation's copy wrote: those its sparse checkout of the
\* cloned commit holds in entries the copy's glob matches
Fetched(i) ==
  Copied(CheckedOut(RepoOfCommit(i.commit),
                    IF i.variant = "ts" THEN getUniquePaths(i.components)
                    ELSE IF i.variant = "sh" THEN JSSparsePaths(get_categories(i.profile))
                    ELSE JSSparsePaths(JSCategories(i))))

\* C9 as claimed - after a successful forced reinstall every installed file
\* that was edited since the previous install has the upstream content
\* again, whatever profile or component list the reinstall was given.
C9_AsClaimed ==
  \A p \in Procs : LET i == inst[p] IN
    (Installed(i) /\ i.force /\ PreManifest(i).kind # "none") =>
      \A l \in LocalPaths :
        i.pre.fs[i.root].ctx.files[l] = "edited" => fs[i.root].ctx.files[l] = "upstream"

\* C9 - after a successful forced reinstall every edited file that the
\* reinstall's sparse checkout holds (the file is in the cloned commit,
\* below a directory of the reinstall's selection or directly in one of its
\* ancestors) has the upstream content again; an edited file outside that
\* checkout keeps its edited content.
C9_EditedFilesRestored ==
  \A p \in Procs : LET i == inst[p] IN
    (Installed(i) /\ i.force /\ PreManifest(i).kind # "none") =>
      \A l \in LocalPaths :
        i.pre.fs[i.root].ctx.files[l] = "edited" =>
          fs[i.root].ctx.files[l] = (IF l \in Fetched(i) THEN "upstream" ELSE "edited")

\* A forced reinstall overwrites an edited file
C9_Witness ==
  \E p \in Procs : LET i == inst[p] IN
    /\ i.variant = "ts" /\ Installed(i) /\ i.force
    /\ PreManifest(i).kind = "json"
    /\ \E l \in LocalPaths :
         /\ i.pre.fs[i.root].ctx.files[l] = "edited"
         /\ fs[i.root].ctx.files[l] = "upstream"

\* C10 - guaranteed scratch cleanup: when a non-dry-run install that created
\* its scratch directory has returned or exited, on whatever path, the
\* scratch directory no longer exists.
C10_ScratchCleanup ==
  \A p \in Procs : LET i == inst[p] IN
    (i.pc = "done" /\ ~i.dryRun /\ "scratch" \in i.writes) =>
      ~scratch[TempDir(i)].exists

\* C11 - when the clone fails, the sparse-checkout fails or the source
\* subtree is absent from the scratch tree, the target content directory is
\* exactly as it was before the install: not created, no file added or
\* changed.
C11_TargetUntouched ==
  \A p \in Procs : LET i == inst[p] IN
    (i.pc = "done" /\ i.result.via \in {"error:clone", "error:sparse", "error:nosource"}) =>
      fs[i.root].ctx = i.pre.fs[i.root].ctx

\* The installer stops at the idempotency gate with exit 0
GateNoOp(i) ==
  /\ i.variant \in {"js", "sh"}
  /\ i.profile \in (IF i.variant = "js" THEN DOMAIN PROFILE_MAP ELSE ShKnownProfiles)
  /\ PreManifest(i).kind # "none"
  /\ ~i.force

PrePointer(i) == i.pre.fs[i.root].pointer

Resolved == disc.res.source # ""

\* The pointer file exists and its context.root holds the index file
ValidPointer == disc.env.pointer.exists /\ disc.env.pointer.root \in disc.env.nav

\* The earliest root of the fixed order whose index file exists, "" when
\* there is none
EarliestValid ==
  LET order == <<".claude/context", "context", ".opencode/context",
                 "~/.claude/context", "{PLUGIN_ROOT}/context">>
      valid == {k \in 1..5 : order[k] \in disc.env.nav} IN
  IF valid = {} THEN ""
  ELSE order[CHOOSE k \in valid : \A j \in valid : k <= j]

\* C14 - Discovery fast-path precedence: whenever a pointer file exists whose
\* context.root contains navigation.md, resolution returns that root with
\* source oac.json, whichever discovery-chain candidates are valid too.
C14_FastPathPrecedence ==
  (Resolved /\ ValidPointer) =>
    /\ disc.res.context_root = disc.env.pointer.root
    /\ disc.res.source = "oac.json"

\* A valid pointer to the user's own directory while the first chain
\* candidate is valid too
C14_Witness ==
  /\ Resolved /\ ValidPointer
  /\ disc.env.pointer.root = "docs"
  /\ ".claude/context" \in disc.env.nav
  /\ disc.res.context_root = "docs"

\* C15 - Discovery chain ordering: when the fast path does not resolve,
\* resolution returns the earliest candidate, in the order .claude/context,
\* context, .opencode/context, ~/.claude/context, {PLUGIN_ROOT}/context,
\* whose navigation.md exists, and not-found exactly when no candidate is
\* valid.
C15_ChainOrdering ==
  (Resolved /\ ~ValidPointer) =>
    /\ disc.res.context_root = EarliestValid
    /\ disc.res.source # "oac.json"
    /\ disc.res.source = "none" <=> EarliestValid = ""

\* Several valid candidates, the first of the order not among them
C15_Witness ==
  /\ Resolved /\ ~disc.env.pointer.exists
  /\ disc.env.nav = {"context", "~/.claude/context", "{PLUGIN_ROOT}/context"}
  /\ disc.res.context_root = "context"

\* The three project-local candidates of the discovery chain
ProjectLocalRoots == {".claude/context", "context", ".opencode/context"}

C19_RegistryInvariant ==
  fetched.res.returned =>
    \A c \in Range(Contexts(fetched.res.registry)) :
      c.category \in fetched.res.categories

\* ------------------------------------------------------ scratch directories
\* The invocation has created its scratch directory and is still running
HoldsScratch(p) ==
  /\ inst[p].pc \notin {"idle", "done"}
  /\ "scratch" \in inst[p].writes

\* C20 - scratch directories are invocation-unique: two install invocations
\* running at the same time, also at the same scope root, never use the same
\* scratch directory.
C20_ScratchUnique ==
  \A p, q \in Procs :
    (p # q /\ HoldsScratch(p) /\ HoldsScratch(q)) =>
      TempDir(inst[p]) # TempDir(inst[q])

\* ------------------------------------------------------- manifest replacement
\* C21 - the manifest file is replaced atomically: at every point of a forced
\* reinstall over an installed manifest, also between two steps of the write,
\* the manifest file holds a complete manifest document, never an empty or
\* partial one.
C21_AtomicManifest ==
  \A p \in Procs :
    LET i == inst[p] IN
    (i.pc # "idle" /\ i.force /\ PreManifest(i).kind = "json") =>
      fs[i.root].manifest.kind = "json"

RecordedProfile(i) ==
  IF i.variant = "js" THEN JSProfileName(i)
  ELSE IF i.variant = "ts" /\ Len(i.custom) > 0 THEN "custom"
  ELSE i.profile

\* The install was asked, without force, for a profile other than the one
\* the manifest at the scope root records, and returned successfully
OtherProfileRequested(i) ==
  /\ i.pc = "done"
  /\ ~i.force
  /\ i.result.success
  /\ PreManifest(i).kind = "json"
  /\ PreManifest(i).profile # RecordedProfile(i)

TransportSucceeded(i) ==
  /\ {"clone", "copy"} \subseteq i.calls
  /\ "ctx" \in i.writes
  /\ i.commit \in {repo.commit : repo \in Repos}
  /\ fs[i.root].ctx.exists
  /\ \A l \in Fetched(i) : fs[i.root].ctx.files[l] = "upstream"

\* C24 - step ordering of an install that is not a dry run: the transport
\* starts only after the registry was fetched, validated and filtered
\* (TypeScript variant, the only one with a registry); the manifest is
\* written only after clone and copy succeeded; the pointer file is written
\* only after the manifest; the run reaches its verification and reports an
\* installation only with its manifest on disk. So a manifest written by a
\* run implies that the run's transport succeeded.
C24_StepOrdering ==
  \A p \in Procs : LET i == inst[p] IN
    i.pc # "idle" =>
      /\ ("clone" \in i.calls /\ i.variant = "ts") =>
           /\ "fetch" \in i.calls
           /\ i.registry \in InstallRegistries
           /\ Len(i.custom) = 0 => ~filterContextByProfile(i.registry, i.profile).threw
           /\ i.components = FilteredList(i)
      /\ "clone" \in i.calls => ~i.dryRun
      /\ "manifest" \in i.writes => TransportSucceeded(i)
      /\ "pointer" \in i.writes => "manifest" \in i.writes
      /\ (i.pc = "ts:verify" \/ i.result.via = "installed") =>
           /\ "manifest" \in i.writes
           /\ fs[i.root].manifest.kind = "json"
           /\ fs[i.root].manifest.downloaded_at = i.run

\* A run that went through every step and wrote the pointer file
C24_Witness ==
  \E p \in Procs : LET i == inst[p] IN
    /\ i.variant = "ts" /\ i.pc = "done" /\ i.result.via = "installed"
    /\ {"fetch", "clone", "copy"} \subseteq i.calls
    /\ {"scratch", "ctx", "manifest", "pointer"} \subseteq i.writes
    /\ Fetched(i) # {}

\* ----------------------------------------------------- concurrent installs
\* C25 - installs at one scope root are not mutually excluded. Whether an
\* invocation passes its gate depends only on the manifest file and its own
\* force flag at the moment of the check, never on another invocation that
\* is past its gate, and once past the gate it writes its manifest over
\* whatever the file holds by then. So two concurrent installs without force
\* that both check before either has written can both run the transport into
\* the same content directory and both write the manifest.
C25_NoMutualExclusion ==
  [][\A p \in Procs :
       LET i == inst[p]
           open == fs[i.root].manifest.kind = "none" \/ i.force IN
       /\ (i.pc = "ts:gate" /\ inst'[p].pc # "ts:gate") =>
            (inst'[p].pc = "ts:fetch" <=> open)
       /\ (i.pc = "js:gate" /\ inst'[p].pc # "js:gate") =>
            (inst'[p].pc = "js:deps" <=> open)
       /\ (i.pc = "ts:manifest:data" /\ inst'[p].pc = "ts:pointer") =>
            fs'[i.root].manifest =
              TSManifest(i.profile, i.custom, i.commit, i.run, i.components)
       /\ (i.pc = "js:manifest:data" /\ inst'[p].pc = "js:pointer") =>
            /\ fs'[i.root].manifest.kind = "json"
            /\ fs'[i.root].manifest.downloaded_at = i.run]_vars

\* Two installs without force, both started with no manifest at the same
\* scope root, both cloned and copied and both wrote the manifest
C25_Witness ==
  /\ inst["p1"].root = inst["p2"].root
  /\ \A p \in Procs : LET i == inst[p] IN
       /\ i.pc = "done" /\ ~i.force /\ ~i.dryRun
       /\ PreManifest(i).kind = "none"
       /\ {"clone", "copy"} \subseteq i.calls
       /\ "ctx" \in i.writes
       /\ "manifest" \in i.writes
       /\ i.result.via = "installed"

\* ---------------------------------------------------------------- updater
\* C26 - the updater never loses or corrupts a file: when the script has
\* ended, every file it processed holds its exact original content or the
\* completely downloaded new content, a file whose update was reported as
\* failed holds the original content, and no backup file remains.
C26_NoFileLost ==
  upd.pc = "done" =>
    \A f \in UpdFiles :
      /\ upd.files[f] \in {"original", "new"}
      /\ upd.status[f] = "failed" => upd.files[f] = "original"
      /\ upd.status[f] = "updated" => upd.files[f] = "new"
      /\ upd.backup[f] = "none"

\* ------------------------------------------------ shell and Node variants
\* What main() decides from the shared options and the files at the scope
\* root: the category list, the scope root (content directory and manifest
\* path), whether it stops, short-circuits, ends as a dry run or downloads,
\* and whether it then writes the pointer file
MainDecision(i, known, categories) ==
  LET before == i.pre.fs[i.root]
      decision == IF ~known THEN "stop"
                  ELSE IF before.manifest.kind # "none" /\ ~i.force THEN "short-circuit"
                  ELSE IF ~i.git THEN "stop"
                  ELSE IF i.dryRun THEN "dry-run"
                  ELSE "download" IN
  [categories |-> IF known THEN categories ELSE <<>>,
   root |-> i.root,
   decision |-> decision,
   pointer |-> decision = "download" /\ i.root = "project" /\ ~before.pointer.exists]

\* main() of install-context.js on the options of invocation i
JSMainDecision(i) ==
  MainDecision(i, i.profile \in DOMAIN PROFILE_MAP,
               PROFILES[IF i.profile \in DOMAIN PROFILE_MAP
                        THEN PROFILE_MAP[i.profile] ELSE "core"])

\* main() of install-context.sh on the options of invocation i
ShMainDecision(i) ==
  MainDecision(i, i.profile \in ShKnownProfiles, get_categories(i.profile))

\* C27 - the shell and the Node variant are equivalent on their shared
\* command line: for every profile name and every combination of --global,
\* --force and --dry-run, from the same files, both select the same category
\* list, the same content directory and manifest path, and take the same
\* decision to short-circuit, to download or to stop, and to write the
\* pointer file.
C27_VariantsEquivalent ==
  \A p \in Procs : LET i == inst[p] IN
    (i.pc = "done" /\ i.variant \in {"js", "sh"} /\ Len(i.custom) = 0) =>
      JSMainDecision(i) = ShMainDecision(i)

\* -------------------------------------------------- content and manifest
\* The file of the content directory belongs to a component that the
\* manifest lists: a listed local_path (TypeScript manifest) or a file below
\* a listed category (Node and shell manifest)
ListedInManifest(manifest, l) ==
  IF manifest.author = "ts"
  THEN \E k \in 1..Len(manifest.context) : manifest.context[k].local_path = l
  ELSE \E k \in 1..Len(manifest.categories) : IsPrefix(<<manifest.categories[k]>>, l)

\* C28 (as claimed) - after every successful install that is not a dry run
\* the content directory holds only files of components that the manifest
\* just written lists.
C28_AsClaimed ==
  \A p \in Procs : LET i == inst[p] IN
    Installed(i) =>
      \A l \in LocalPaths :
        fs[i.root].ctx.files[l] # "absent" => ListedInManifest(fs[i.root].manifest, l)

\* C28 - the copy into the content directory only adds and overwrites:
\* after every successful install that is not a dry run, every file of the
\* run's sparse checkout is in the content directory with the upstream
\* content, listed in the manifest or not, and every other file is exactly as
\* it was before the install. Files of an earlier, larger selection remain.
C28_ContentIsOverlay ==
  \A p \in Procs : LET i == inst[p] IN
    Installed(i) =>
      \A l \in LocalPaths :
        fs[i.root].ctx.files[l] =
          (IF l \in Fetched(i) THEN "upstream" ELSE i.pre.fs[i.root].ctx.files[l])

\* A forced reinstall with a smaller selection leaves a file of the earlier
\* install that its manifest does not list
C28_Witness ==
  \E p \in Procs : LET i == inst[p] IN
    /\ Installed(i) /\ i.force
    /\ PreManifest(i).kind = "json"
    /\ \E l \in LocalPaths :
         /\ l \notin Fetched(i)
         /\ ListedInManifest(PreManifest(i), l)
         /\ fs[i.root].ctx.files[l] # "absent"
         /\ ~ListedInManifest(fs[i.root].manifest, l)

\* ------------------------------------------------- the gate and the file
\* The invocation gets as far as its idempotency gate
ReachesGate(i) ==
  /\ i.pc = "done"
  /\ i.variant = "ts" => i.git
  /\ i.variant = "js" => i.profile \in DOMAIN PROFILE_MAP
  /\ i.variant = "sh" => i.profile \in ShKnownProfiles

\* C29 (as claimed) - the gate depends only on the existence of the
\* manifest file: with a manifest file and no force flag the install is a
\* successful no-op with exit 0, whatever the file contains.
C29_AsClaimed ==
  \A p \in Procs : LET i == inst[p] IN
    (ReachesGate(i) /\ PreManifest(i).kind # "none" /\ ~i.force) =>
      /\ i.result.via = "gate"
      /\ i.result.success
      /\ i.result.exit = 0

\* C29 - with a manifest file and no force flag the install stops at the
\* gate without a fetch, a clone, a copy or a write. The Node and the shell
\* variant look only at the existence of the file and exit 0 whatever it
\* contains. The TypeScript variant parses the file at the gate: with a
\* manifest that is not parseable JSON it returns failure, exit 1, and with a
\* parseable one it returns success, exit 0.
C29_GateAndContent ==
  \A p \in Procs : LET i == inst[p] IN
    (ReachesGate(i) /\ PreManifest(i).kind # "none" /\ ~i.force) =>
      /\ i.calls = {}
      /\ Untouched(i)
      /\ IF i.variant = "ts" /\ PreManifest(i).kind = "corrupt"
         THEN /\ i.result.via = "error:parse"
              /\ ~i.result.success
              /\ i.result.exit = 1
         ELSE /\ i.result.via = "gate"
              /\ i.result.success
              /\ i.result.exit = 0

\* The TypeScript installer meets a manifest file that is not valid JSON
C29_Witness ==
  \E p \in Procs : LET i == inst[p] IN
    /\ ReachesGate(i) /\ ~i.force
    /\ i.variant = "ts"
    /\ PreManifest(i).kind = "corrupt"
    /\ i.result.via = "error:parse"
    /\ i.result.exit = 1

\* ------------------------------------------------ failure and the record
\* installContext returned success = false
Failed(i) == i.variant = "ts" /\ i.pc = "done" /\ ~i.result.success

\* The stages that precede the manifest write
StagesBeforeManifest ==
  {"error:git", "error:parse", "error:fetch", "error:schema", "error:filter",
   "error:clone", "error:sparse", "error:nosource", "error:copy"}

====
